---- MODULE Spec2Model ----
(***************************************************************************)
(* open-in-explorer: the path sanitisation / validation / classification   *)
(* / dispatch pipeline of src/src/extension.ts.                            *)
(*                                                                         *)
(* A string is a sequence of one-character strings, a file content is a    *)
(* sequence of byte values 0..255.                                         *)
(***************************************************************************)
EXTENDS Integers, Sequences, FiniteSets, TLC

VARIABLES
    fn,             \* the pure function a function-level specification applies
    arg,            \* its input
    res,            \* the sequence of results obtained so far
    pc,             \* position of the extension.openInExplorer handler
    platform,       \* process.platform
    settings,       \* the ambient vscode configuration ('openInExplorer')
    config,         \* the handler's `config` (snapshot taken by loadConfig)
    editor,         \* vscode.window.activeTextEditor is defined
    raw,            \* editor.document.getText(selection)
    selectedText,   \* the handler's `selectedText` (sanitized)
    normalizedPath, \* processPath's `normalizedPath`
    linkPath,       \* handleSymlink's `filePath`
    stats,          \* processPath's `stats`
    bytesToRead,    \* isTextFile's `bytesToRead`
    pending,        \* executeCommand's `command`, handed to execPromise
    cmdResult,      \* the value executeCommand returned
    probes,         \* filesystem calls made in this run, in order
    prompts,        \* modal prompts shown in this run, in order
    replies,        \* what each answered prompt returned, in order
    openPathCalls,  \* platformHandler.openPath invocations of this run
    execCalls,      \* command lines handed to execPromise in this run
    editorCalls,    \* paths handed to vscode.workspace.openTextDocument
    errorsShown,    \* messages handed to vscode.window.showErrorMessage
    outcome,        \* how the run ended
    edits           \* number of configuration changes made so far

fnVars  == <<fn, arg, res>>
runVars == <<pc, platform, settings, config, editor, raw, selectedText,
             normalizedPath, linkPath, stats, bytesToRead, pending, cmdResult,
             probes, prompts, replies, openPathCalls, execCalls,
             editorCalls, errorsShown, outcome, edits>>
vars    == <<fn, arg, res, pc, platform, settings, config, editor, raw,
             selectedText, normalizedPath, linkPath, stats, bytesToRead,
             pending, cmdResult, probes, prompts, replies, openPathCalls,
             execCalls, editorCalls, errorsShown, outcome, edits>>

(***************************************************************************)
(* Bounds                                                                  *)
(***************************************************************************)
MaxStrLen   == 4    \* longest string given to sanitizePath on its own
MaxTailLen  == 3    \* longest free tail appended to a path prefix
MaxBodyLen  == 4    \* longest free body appended to a file header
MaxScan     == 4    \* largest configured textFileScanBytes
MaxBlankLen == 1    \* longest whitespace/quote-only selection of a run
MaxEdits    == 1    \* configuration changes in one behaviour
MaxArgLen   == 4    \* longest path given to executeCommand on its own
MaxPathLen  == 4    \* longest path given to openPath on its own

(***************************************************************************)
(* Strings                                                                 *)
(***************************************************************************)
SP == " "
DQ == "\""
SQ == "'"
BS == "\\"
FS == "/"
DOT == "."
COLON == ":"

RECURSIVE StringsUpTo(_, _)
StringsUpTo(alphabet, n) ==
    IF n = 0 THEN {<<>>}
    ELSE LET shorter == StringsUpTo(alphabet, n - 1)
         IN  shorter \cup {Append(s, c) : s \in shorter, c \in alphabet}

Last(s) == s[Len(s)]
Front(s) == SubSeq(s, 1, Len(s) - 1)

RECURSIVE Filter(_, _)
Filter(s, keep) ==
    IF s = <<>> THEN <<>>
    ELSE IF Head(s) \in keep THEN <<Head(s)>> \o Filter(Tail(s), keep)
    ELSE Filter(Tail(s), keep)

\* String.prototype.includes
Includes(s, sub) ==
    \E i \in 1..(Len(s) - Len(sub) + 1) : SubSeq(s, i, i + Len(sub) - 1) = sub

StartsWith(s, pre) == Len(s) >= Len(pre) /\ SubSeq(s, 1, Len(pre)) = pre

UpperCase == <<"A","B","C","D","E","F","G","H","I","J","K","L","M",
               "N","O","P","Q","R","S","T","U","V","W","X","Y","Z">>
LowerCase == <<"a","b","c","d","e","f","g","h","i","j","k","l","m",
               "n","o","p","q","r","s","t","u","v","w","x","y","z">>
Letters == {UpperCase[i] : i \in 1..26} \cup {LowerCase[i] : i \in 1..26}

ToLowerChar(c) ==
    IF \E i \in 1..26 : UpperCase[i] = c
    THEN LowerCase[CHOOSE i \in 1..26 : UpperCase[i] = c]
    ELSE c

\* String.prototype.toLowerCase
ToLowerCase(s) == [i \in 1..Len(s) |-> ToLowerChar(s[i])]

\* the characters \s matches and trim() strips
Whitespace == {SP}

\* String.prototype.trim
RECURSIVE TrimStart(_)
TrimStart(s) ==
    IF s # <<>> /\ Head(s) \in Whitespace THEN TrimStart(Tail(s)) ELSE s

RECURSIVE TrimEnd(_)
TrimEnd(s) ==
    IF s # <<>> /\ Last(s) \in Whitespace THEN TrimEnd(Front(s)) ELSE s

Trim(s) == TrimEnd(TrimStart(s))

\* join the segments with a separator
RECURSIVE Join(_, _)
Join(segs, sep) ==
    IF segs = <<>> THEN <<>>
    ELSE IF Len(segs) = 1 THEN segs[1]
    ELSE segs[1] \o <<sep>> \o Join(Tail(segs), sep)

\* the maximal separator-free runs of s, empty runs included
RECURSIVE Split(_, _)
Split(s, seps) ==
    IF \A i \in 1..Len(s) : s[i] \notin seps THEN <<s>>
    ELSE LET k == CHOOSE i \in 1..Len(s) :
                      s[i] \in seps /\ \A j \in 1..(i - 1) : s[j] \notin seps
         IN  <<SubSeq(s, 1, k - 1)>> \o Split(SubSeq(s, k + 1, Len(s)), seps)

(***************************************************************************)
(* path.normalize of the platform's path module                            *)
(***************************************************************************)
PosixSeps == {FS}
WinSeps   == {FS, BS}

\* normalizeString: "" and "." segments vanish, ".." removes the segment
\* before it, or stays when nothing is left to remove and allowAboveRoot
RECURSIVE NormalizeSegs(_, _, _)
NormalizeSegs(segs, acc, allowAboveRoot) ==
    IF segs = <<>> THEN acc
    ELSE LET seg == Head(segs)
             rest == Tail(segs)
         IN  IF seg = <<>> \/ seg = <<DOT>>
             THEN NormalizeSegs(rest, acc, allowAboveRoot)
             ELSE IF seg = <<DOT, DOT>>
             THEN IF acc # <<>> /\ Last(acc) # <<DOT, DOT>>
                  THEN NormalizeSegs(rest, Front(acc), allowAboveRoot)
                  ELSE IF allowAboveRoot
                  THEN NormalizeSegs(rest, Append(acc, seg), allowAboveRoot)
                  ELSE NormalizeSegs(rest, acc, allowAboveRoot)
             ELSE NormalizeSegs(rest, Append(acc, seg), allowAboveRoot)

normalizeString(p, allowAboveRoot, separator, seps) ==
    Join(NormalizeSegs(Split(p, seps), <<>>, allowAboveRoot), separator)

PosixNormalize(p) ==
    IF Len(p) = 0 THEN <<DOT>>
    ELSE LET isAbsolute == p[1] = FS
             trailingSeparator == Last(p) = FS
             body == normalizeString(p, ~isAbsolute, FS, PosixSeps)
         IN  IF Len(body) = 0
             THEN IF isAbsolute THEN <<FS>>
                  ELSE IF trailingSeparator THEN <<DOT, FS>> ELSE <<DOT>>
             ELSE LET withSep == IF trailingSeparator THEN Append(body, FS)
                                 ELSE body
                  IN  IF isAbsolute THEN <<FS>> \o withSep ELSE withSep

\* index of the first position >= j holding (sep = TRUE) a separator or
\* (sep = FALSE) a non-separator, Len(p) + 1 when there is none
RECURSIVE WinScan(_, _, _)
WinScan(p, j, sep) ==
    IF j > Len(p) THEN j
    ELSE IF (p[j] \in WinSeps) = sep THEN j
    ELSE WinScan(p, j + 1, sep)

\* the root of a win32 path: [device, rootEnd, isAbsolute, uncOnly];
\* rootEnd counts the characters of the root
WinRoot(p) ==
    LET none == [device |-> <<>>, hasDevice |-> FALSE, rootEnd |-> 0,
                 isAbsolute |-> FALSE, uncOnly |-> FALSE]
    IN
    IF p[1] \in WinSeps
    THEN IF p[2] \in WinSeps
         THEN LET j1 == WinScan(p, 3, TRUE)       \* end of the host
                  j2 == WinScan(p, j1, FALSE)     \* start of the share
                  j3 == WinScan(p, j2, TRUE)      \* end of the share
                  unc == <<BS, BS>> \o SubSeq(p, 3, j1 - 1) \o <<BS>>
              IN  IF j1 <= Len(p) /\ j1 # 3 /\ j2 <= Len(p) /\ j2 # j1
                  THEN IF j3 = Len(p) + 1
                       THEN [none EXCEPT !.isAbsolute = TRUE, !.uncOnly = TRUE,
                                  !.hasDevice = TRUE,
                                  !.device = unc \o SubSeq(p, j2, Len(p))]
                       ELSE [none EXCEPT !.isAbsolute = TRUE,
                                  !.hasDevice = TRUE, !.rootEnd = j3 - 1,
                                  !.device = unc \o SubSeq(p, j2, j3 - 1)]
                  ELSE [none EXCEPT !.isAbsolute = TRUE]
         ELSE [none EXCEPT !.isAbsolute = TRUE, !.rootEnd = 1]
    ELSE IF p[1] \in Letters /\ p[2] = COLON
    THEN IF Len(p) > 2 /\ p[3] \in WinSeps
         THEN [none EXCEPT !.hasDevice = TRUE, !.device = SubSeq(p, 1, 2),
                           !.rootEnd = 3, !.isAbsolute = TRUE]
         ELSE [none EXCEPT !.hasDevice = TRUE, !.device = SubSeq(p, 1, 2),
                           !.rootEnd = 2]
    ELSE none

Win32Normalize(p) ==
    IF Len(p) = 0 THEN <<DOT>>
    ELSE IF Len(p) = 1 THEN (IF p[1] = FS THEN <<BS>> ELSE p)
    ELSE LET root == WinRoot(p)
             tail0 == IF root.rootEnd < Len(p)
                      THEN normalizeString(SubSeq(p, root.rootEnd + 1, Len(p)),
                                           ~root.isAbsolute, BS, WinSeps)
                      ELSE <<>>
             tail1 == IF Len(tail0) = 0 /\ ~root.isAbsolute THEN <<DOT>>
                      ELSE tail0
             tail == IF Len(tail1) > 0 /\ Last(p) \in WinSeps
                     THEN Append(tail1, BS) ELSE tail1
         IN  IF root.uncOnly THEN Append(root.device, BS)
             ELSE IF ~root.hasDevice
             THEN IF root.isAbsolute THEN <<BS>> \o tail ELSE tail
             ELSE IF root.isAbsolute THEN root.device \o <<BS>> \o tail
             ELSE root.device \o tail

\* path.normalize: the path module is the one of process.platform
normalize(p, plat) ==
    IF plat = "win32" THEN Win32Normalize(p) ELSE PosixNormalize(p)

(***************************************************************************)
(* sanitizePath                                                            *)
(***************************************************************************)
Quotes == {DQ, SQ}

\* replace(/["']/g, '')
RemoveQuotes(s) == Filter(s, {s[i] : i \in 1..Len(s)} \ Quotes)

sanitizePath(inputPath, plat) ==
    normalize(RemoveQuotes(Trim(inputPath)), plat)

(***************************************************************************)
(* path.extname of the platform's path module                              *)
(***************************************************************************)
\* the backward scan of extname; i is the 0-based index under inspection
RECURSIVE ExtScan(_, _, _, _, _)
ExtScan(p, i, start, seps, st) ==
    IF i < start THEN st
    ELSE LET code == p[i + 1] IN
         IF code \in seps
         THEN IF ~st.matchedSlash THEN [st EXCEPT !.startPart = i + 1]
              ELSE ExtScan(p, i - 1, start, seps, st)
         ELSE LET st1 == IF st.end = -1
                         THEN [st EXCEPT !.matchedSlash = FALSE, !.end = i + 1]
                         ELSE st
                  st2 == IF code = DOT
                         THEN IF st1.startDot = -1
                              THEN [st1 EXCEPT !.startDot = i]
                              ELSE [st1 EXCEPT !.preDotState = 1]
                         ELSE IF st1.startDot # -1
                              THEN [st1 EXCEPT !.preDotState = -1]
                              ELSE st1
              IN  ExtScan(p, i - 1, start, seps, st2)

extname(p, plat) ==
    LET win == plat = "win32"
        start == IF win /\ Len(p) >= 2 /\ p[2] = COLON /\ p[1] \in Letters
                 THEN 2 ELSE 0
        st == ExtScan(p, Len(p) - 1, start, IF win THEN WinSeps ELSE PosixSeps,
                      [startDot |-> -1, startPart |-> start, end |-> -1,
                       matchedSlash |-> TRUE, preDotState |-> 0])
    IN  IF \/ st.startDot = -1
           \/ st.end = -1
           \/ st.preDotState = 0
           \/ /\ st.preDotState = 1
              /\ st.startDot = st.end - 1
              /\ st.startDot = st.startPart + 1
        THEN <<>>
        ELSE SubSeq(p, st.startDot + 1, st.end)

\* path.dirname (posix): everything before the last separator that is
\* followed by a name
RECURSIVE PosixDirEnd(_, _, _)
PosixDirEnd(p, i, matchedSlash) ==
    IF i < 1 THEN -1
    ELSE IF p[i + 1] = FS
         THEN IF ~matchedSlash THEN i ELSE PosixDirEnd(p, i - 1, matchedSlash)
         ELSE PosixDirEnd(p, i - 1, FALSE)

PosixDirname(p) ==
    IF Len(p) = 0 THEN <<DOT>>
    ELSE LET hasRoot == p[1] = FS
             end == PosixDirEnd(p, Len(p) - 1, TRUE)
         IN  IF end = -1 THEN (IF hasRoot THEN <<FS>> ELSE <<DOT>>)
             ELSE IF hasRoot /\ end = 1 THEN <<FS, FS>>
             ELSE SubSeq(p, 1, end)

(***************************************************************************)
(* PlatformHandler.validatePath                                            *)
(***************************************************************************)
Null == "null"

WINDOWS_PATH_INVALID == "WINDOWS_PATH_INVALID"
MACOS_PATH_INVALID   == "MACOS_PATH_INVALID"
LINUX_PATH_INVALID   == "LINUX_PATH_INVALID"

\* [^<>:"|?*]
LocalDriveForbidden == {"<", ">", COLON, DQ, "|", "?", "*"}

\* /^[a-zA-Z]:\\[^<>:"|?*]+$/
LOCAL_DRIVE_REGEX(s) ==
    /\ Len(s) >= 4
    /\ s[1] \in Letters
    /\ s[2] = COLON
    /\ s[3] = BS
    /\ \A i \in 4..Len(s) : s[i] \notin LocalDriveForbidden

\* [^\s\\]
UncNameChar(c) == c \notin Whitespace /\ c # BS

\* /^\\\\[^\s\\]+\\[^\s\\]+/
UNC_PATH_REGEX(s) ==
    /\ Len(s) >= 5
    /\ s[1] = BS
    /\ s[2] = BS
    /\ \E k \in 4..(Len(s) - 1) :
          /\ \A i \in 3..(k - 1) : UncNameChar(s[i])
          /\ s[k] = BS
          /\ UncNameChar(s[k + 1])

\* /^\/.+/
ABSOLUTE_PATH_REGEX(s) == Len(s) >= 2 /\ s[1] = FS

DotDot == <<DOT, DOT>>

\* the Windows validator with the '..' test of the relative branch left out
WindowsValidatePathNoDotDotTest(sel, allowRelative) ==
    IF LOCAL_DRIVE_REGEX(sel) THEN Null
    ELSE IF UNC_PATH_REGEX(sel) THEN Null
    ELSE IF allowRelative THEN Null
    ELSE WINDOWS_PATH_INVALID

WindowsValidatePath(sel, allowRelative) ==
    IF LOCAL_DRIVE_REGEX(sel) THEN Null
    ELSE IF UNC_PATH_REGEX(sel) THEN Null
    ELSE IF allowRelative /\ ~Includes(sel, DotDot) THEN Null
    ELSE WINDOWS_PATH_INVALID

\* the macOS validator with the '..' test of the relative branch left out
MacOSValidatePathNoDotDotTest(sel, allowRelative) ==
    IF ABSOLUTE_PATH_REGEX(sel) /\ ~Includes(sel, DotDot) THEN Null
    ELSE IF allowRelative THEN Null
    ELSE MACOS_PATH_INVALID

MacOSValidatePath(sel, allowRelative) ==
    IF ABSOLUTE_PATH_REGEX(sel) /\ ~Includes(sel, DotDot) THEN Null
    ELSE IF allowRelative /\ ~Includes(sel, DotDot) THEN Null
    ELSE MACOS_PATH_INVALID

LinuxValidatePath(sel, allowRelative) ==
    IF ABSOLUTE_PATH_REGEX(sel) /\ ~Includes(sel, DotDot) THEN Null
    ELSE IF allowRelative /\ ~Includes(sel, DotDot) THEN Null
    ELSE LINUX_PATH_INVALID

\* PLATFORM_HANDLERS
SupportedPlatforms == {"win32", "darwin", "linux"}

validatePath(plat, sel, allowRelative) ==
    CASE plat = "win32"  -> WindowsValidatePath(sel, allowRelative)
      [] plat = "darwin" -> MacOSValidatePath(sel, allowRelative)
      [] plat = "linux"  -> LinuxValidatePath(sel, allowRelative)

\* PlatformHandler.normalizePath
normalizePath(plat, sel) ==
    IF plat = "win32"
    THEN [i \in 1..Len(Win32Normalize(sel)) |->
             IF Win32Normalize(sel)[i] = FS THEN BS ELSE Win32Normalize(sel)[i]]
    ELSE PosixNormalize(sel)

(***************************************************************************)
(* isTextFile and determineMimeType                                        *)
(***************************************************************************)
DefaultScanBytes == 4096

\* config.textFileScanBytes || bytesToRead
ScanBytes(textFileScanBytes) ==
    IF textFileScanBytes = 0 THEN DefaultScanBytes ELSE textFileScanBytes

Undefined == -1

Min(a, b) == IF a < b THEN a ELSE b

\* bytesRead of fileHandle.read(buffer, 0, bytesToRead, 0)
BytesRead(content, toRead) == Min(Len(content), toRead)

\* buffer[i] (0-based) of the zero-filled Buffer.alloc(bytesToRead) after
\* the read; an index outside the buffer reads undefined
BufferAt(content, toRead, i) ==
    IF i < BytesRead(content, toRead) THEN content[i + 1]
    ELSE IF i < toRead THEN 0
    ELSE Undefined

\* buffer.slice(0, bytesRead)
ReadSlice(content, toRead) == SubSeq(content, 1, BytesRead(content, toRead))

IsControlChar(b) == (b < 32 /\ b # 9 /\ b # 10 /\ b # 13) \/ b = 127

\* controlChars.length
CountControlChars(s) == Cardinality({i \in 1..Len(s) : IsControlChar(s[i])})

IsNonAscii(b) == b > 127

\* nonAsciiChars.length
CountNonAscii(s) == Cardinality({i \in 1..Len(s) : IsNonAscii(s[i])})

\* the BOM checks of isTextFile: TRUE when one of them returns true
BomSaysText(content, toRead) ==
    LET b(i) == BufferAt(content, toRead, i) IN
    /\ BytesRead(content, toRead) >= 2
    /\ \/ b(0) = 239 /\ b(1) = 187 /\ b(2) = 191
       \/ b(0) = 254 /\ b(1) = 255
       \/ b(0) = 255 /\ b(1) = 254 /\ (b(2) # 0 \/ b(3) # 0)
       \/ b(0) = 0 /\ b(1) = 0 /\ b(2) = 254 /\ b(3) = 255

\* controlCharRatio >= 0.2
ControlRatioAtLeast(content, toRead) ==
    5 * CountControlChars(ReadSlice(content, toRead))
        >= BytesRead(content, toRead)

\* controlCharRatio > 0.2, in integers
ControlRatioExceeds(content, toRead) ==
    5 * CountControlChars(ReadSlice(content, toRead))
        > BytesRead(content, toRead)

\* nonAsciiRatio > 0.9, in integers
NonAsciiRatioExceeds(content, toRead) ==
    10 * CountNonAscii(ReadSlice(content, toRead))
        > 9 * BytesRead(content, toRead)

\* isTextFile with the NUL test made before the BOM tests
IsTextBufferNulFirst(content, toRead) ==
    IF \E i \in 1..BytesRead(content, toRead) : content[i] = 0 THEN FALSE
    ELSE IF BomSaysText(content, toRead) THEN TRUE
    ELSE IF ControlRatioExceeds(content, toRead) THEN FALSE
    ELSE IF NonAsciiRatioExceeds(content, toRead) THEN FALSE
    ELSE TRUE

\* isTextFile without the NUL test
IsTextBufferNoNulTest(content, toRead) ==
    IF BomSaysText(content, toRead) THEN TRUE
    ELSE IF ControlRatioExceeds(content, toRead) THEN FALSE
    ELSE IF NonAsciiRatioExceeds(content, toRead) THEN FALSE
    ELSE TRUE

\* isTextFile once the file was opened and read
IsTextBuffer(content, toRead) ==
    IF BomSaysText(content, toRead) THEN TRUE
    ELSE IF \E i \in 1..BytesRead(content, toRead) : content[i] = 0 THEN FALSE
    ELSE IF ControlRatioExceeds(content, toRead) THEN FALSE
    ELSE IF NonAsciiRatioExceeds(content, toRead) THEN FALSE
    ELSE TRUE

isTextFile(content, textFileScanBytes) ==
    IsTextBuffer(content, ScanBytes(textFileScanBytes))

textExtensions ==
    {<<".","t","x","t">>, <<".","m","d">>, <<".","j","s","o","n">>,
     <<".","j","s">>, <<".","t","s">>, <<".","h","t","m","l">>,
     <<".","c","s","s">>, <<".","x","m","l">>, <<".","c","s","v">>,
     <<".","y","m","l">>, <<".","y","a","m","l">>, <<".","i","n","i">>,
     <<".","c","o","n","f">>, <<".","c","f","g">>, <<".","l","o","g">>,
     <<".","c">>, <<".","c","p","p">>, <<".","h">>, <<".","h","p","p">>,
     <<".","j","a","v","a">>, <<".","p","y">>, <<".","r","b">>,
     <<".","p","h","p">>, <<".","s","h">>, <<".","b","a","s","h">>,
     <<".","p","s","1">>, <<".","b","a","t">>, <<".","c","m","d">>,
     <<".","s","q","l">>, <<".","d","i","f","f">>}

binaryExtensions ==
    {<<".","p","d","f">>, <<".","d","o","c">>, <<".","d","o","c","x">>,
     <<".","x","l","s">>, <<".","x","l","s","x">>, <<".","p","p","t">>,
     <<".","p","p","t","x">>, <<".","z","i","p">>, <<".","r","a","r">>,
     <<".","t","a","r">>, <<".","g","z">>, <<".","7","z">>,
     <<".","e","x","e">>, <<".","d","l","l">>, <<".","s","o">>,
     <<".","p","n","g">>, <<".","j","p","g">>, <<".","j","p","e","g">>,
     <<".","g","i","f">>, <<".","b","m","p">>, <<".","t","i","f","f">>,
     <<".","w","e","b","p">>, <<".","m","p","3">>, <<".","m","p","4">>,
     <<".","a","v","i">>, <<".","m","o","v">>, <<".","m","k","v">>,
     <<".","w","a","v">>, <<".","f","l","a","c">>, <<".","d","b">>,
     <<".","s","q","l","i","t","e">>, <<".","m","d","b">>}

\* determineMimeType comparing the extension as it is written
MimeByExtensionCaseSensitive(filePath, plat) ==
    LET fileExtension == extname(filePath, plat) IN
    IF fileExtension \in textExtensions THEN "text"
    ELSE IF fileExtension \in binaryExtensions THEN "binary"
    ELSE "scan"

\* determineMimeType before any file access: "text", "binary", or "scan"
\* when the content decides
MimeByExtension(filePath, plat) ==
    LET fileExtension == ToLowerCase(extname(filePath, plat)) IN
    IF fileExtension \in textExtensions THEN "text"
    ELSE IF fileExtension \in binaryExtensions THEN "binary"
    ELSE "scan"

(***************************************************************************)
(* escapeShellArg, validateCustomExplorer, executeCommand, openPath        *)
(***************************************************************************)
\* every occurrence of the character c replaced by the string by
RECURSIVE ReplaceChar(_, _, _)
ReplaceChar(s, c, by) ==
    IF s = <<>> THEN <<>>
    ELSE (IF Head(s) = c THEN by ELSE <<Head(s)>>)
             \o ReplaceChar(Tail(s), c, by)

\* escapeShellArg wrapping the argument without escaping its quotes
escapeShellArgUnescaped(a, plat) ==
    IF plat = "win32" THEN <<DQ>> \o a \o <<DQ>> ELSE <<SQ>> \o a \o <<SQ>>

escapeShellArg(a, plat) ==
    IF plat = "win32"
    THEN <<DQ>> \o ReplaceChar(a, DQ, <<DQ, DQ>>) \o <<DQ>>
    ELSE <<SQ>> \o ReplaceChar(a, SQ, <<SQ, BS, SQ, SQ>>) \o <<SQ>>

\* the grave accent (U+0060), which a TLA+ string literal cannot hold
GRAVE == "GRAVE"

\* the character class of the first pattern: ; & | > < $ grave-accent \
DangerousChars == {";", "&", "|", ">", "<", "$", GRAVE, BS}

\* the alternatives of the three case-insensitive patterns
DangerousWords ==
    {<<"c","u","r","l">>,
     <<"w","g","e","t">>,
     <<"n","c">>,
     <<"n","c","a","t">>,
     <<"b","a","s","h">>,
     <<"s","h">>,
     <<"c","m","d">>,
     <<"p","o","w","e","r","s","h","e","l","l">>,
     <<"r","m">>,
     <<"r","m","d","i","r">>,
     <<"d","e","l">>,
     <<"f","o","r","m","a","t">>}

validateCustomExplorer(command) ==
    ~ \/ \E i \in 1..Len(command) : command[i] \in DangerousChars
      \/ \E w \in DangerousWords : Includes(ToLowerCase(command), w)

EXPLORER_EXE == <<"e","x","p","l","o","r","e","r",".","e","x","e">>
OPEN_CMD     == <<"o","p","e","n">>
XDG_OPEN     == <<"x","d","g","-","o","p","e","n">>
SELECT_ARG   == <<"/","s","e","l","e","c","t",",">>
REVEAL_ARG   == <<"-","R">>

BuiltinCommands == {EXPLORER_EXE, OPEN_CMD, XDG_OPEN}

\* the command line executeCommand builds
CommandLine(commandBase, args, plat) ==
    commandBase \o <<SP>>
        \o Join([i \in 1..Len(args) |-> escapeShellArg(args[i], plat)], SP)

\* executeCommand with the validation of the custom command left out
executeCommandUnvalidated(commandBase, args, plat) ==
    [rejected |-> FALSE, command |-> CommandLine(commandBase, args, plat)]

\* executeCommand up to the call of execPromise: the command is either
\* rejected or handed to the process-exec collaborator
executeCommand(commandBase, args, plat) ==
    IF commandBase \notin BuiltinCommands /\ ~validateCustomExplorer(commandBase)
    THEN [rejected |-> TRUE, command |-> <<>>]
    ELSE [rejected |-> FALSE, command |-> CommandLine(commandBase, args, plat)]

\* customExplorer && customExplorer.trim() !== ''
UseCustom(customExplorer) == customExplorer # <<>> /\ Trim(customExplorer) # <<>>

\* PlatformHandler.openPath: the commandBase and args given to executeCommand
WindowsOpenPath(sel, isFile, customExplorer) ==
    [commandBase |-> IF UseCustom(customExplorer) THEN customExplorer
                     ELSE EXPLORER_EXE,
     args |-> IF isFile THEN <<SELECT_ARG, sel>> ELSE <<sel>>]

MacOSOpenPath(sel, isFile, customExplorer) ==
    IF UseCustom(customExplorer)
    THEN [commandBase |-> customExplorer, args |-> <<sel>>]
    ELSE [commandBase |-> OPEN_CMD,
          args |-> IF isFile THEN <<REVEAL_ARG, sel>> ELSE <<sel>>]

\* the Linux openPath giving xdg-open the file itself
LinuxOpenPathOpensFile(sel, isFile, customExplorer) ==
    IF UseCustom(customExplorer)
    THEN [commandBase |-> customExplorer, args |-> <<sel>>]
    ELSE [commandBase |-> XDG_OPEN, args |-> <<sel>>]

LinuxOpenPath(sel, isFile, customExplorer) ==
    IF UseCustom(customExplorer)
    THEN [commandBase |-> customExplorer, args |-> <<sel>>]
    ELSE [commandBase |-> XDG_OPEN,
          args |-> IF isFile THEN <<PosixDirname(sel)>> ELSE <<sel>>]

openPath(plat, sel, isFile, customExplorer) ==
    CASE plat = "win32"  -> WindowsOpenPath(sel, isFile, customExplorer)
      [] plat = "darwin" -> MacOSOpenPath(sel, isFile, customExplorer)
      [] plat = "linux"  -> LinuxOpenPath(sel, isFile, customExplorer)

getPlatformSpecificExplorer(plat, cfg) ==
    CASE plat = "win32"  -> cfg.customExplorerWindows
      [] plat = "darwin" -> cfg.customExplorerMacOS
      [] plat = "linux"  -> cfg.customExplorerLinux
      [] OTHER           -> <<>>

\* getLocalizedMessage: a message of MESSAGES in a language
getLocalizedMessage(message, language) ==
    [key |-> message, language |-> IF language = "en" THEN "en" ELSE "ja"]

(***************************************************************************)
(* Configuration                                                           *)
(***************************************************************************)
LargeFileSizeLimit == 5242880

\* the defaults of loadConfig, with the scan size the manifest contributes
DefaultSettings ==
    [customExplorerWindows |-> <<>>,
     customExplorerMacOS   |-> <<>>,
     customExplorerLinux   |-> <<>>,
     textFileScanBytes     |-> DefaultScanBytes,
     largeFileSizeLimit    |-> LargeFileSizeLimit,
     confirmLargeFileOpen  |-> TRUE,
     allowRelativePaths    |-> FALSE,
     language              |-> "ja",
     followSymlinks        |-> TRUE]

\* loadConfig
loadConfig == settings

SafeCommand      == <<"f","m">>
DangerousCommand == <<";","r","m"," ","-","r","f"," ","/">>
ShellCommand     == <<"Z","s","h">>
BlankCommand     == <<SP>>

CustomCommands == {<<>>, SafeCommand, DangerousCommand, ShellCommand,
                   BlankCommand}

\* the values a user gives to a custom explorer command: any of
\* CustomCommands for the OS the extension runs on
CustomValues(os) ==
    IF platform = os THEN CustomCommands ELSE {<<>>, SafeCommand}

\* the values a user gives to each setting
SettingValues ==
    [customExplorerWindows |-> CustomValues("win32"),
     customExplorerMacOS   |-> CustomValues("darwin"),
     customExplorerLinux   |-> CustomValues("linux"),
     textFileScanBytes     |-> {DefaultScanBytes, 2},
     largeFileSizeLimit    |-> {LargeFileSizeLimit},
     confirmLargeFileOpen  |-> BOOLEAN,
     allowRelativePaths    |-> BOOLEAN,
     language              |-> {"ja", "en"},
     followSymlinks        |-> BOOLEAN]

(***************************************************************************)
(* The environment of a run                                                *)
(***************************************************************************)
Platforms == SupportedPlatforms \cup {"freebsd"}

BlankSelections == StringsUpTo({SP, DQ, SQ}, MaxBlankLen)

PathSelections ==
    {<<"/","a",".","t","x","t">>,
     <<"/","a">>,
     <<"/","a",".","z","z">>,
     <<"\"","/","a",".","P","N","G","\"">>,
     <<"/","a","/",".",".","/","b",".","z","z">>,
     <<"a",".","z","z">>,
     <<".",".","/","a">>,
     <<"C",":","\\","a",".","t","x","t">>,
     <<"\\","\\","h","\\","s","\\","a",".","z","z">>}

RawSelections == BlankSelections \cup PathSelections

\* what fs.readlink may return
LinkTargets == {<<"/","t",".","z","z">>, <<".",".","/","t">>}

FileSizes == {LargeFileSizeLimit - 1, LargeFileSizeLimit, LargeFileSizeLimit + 1}

\* what the scan of a file of unknown extension may read
FileContents ==
    {<<65>>, <<0, 0, 0, 0>>, <<239, 187, 191, 0>>, <<255, 254>>, <<1, 65, 1>>}

NoStats  == [kind |-> "none", size |-> 0]

\* one awaited filesystem call of the run: the operation, its path, how it
\* settled ("pending" until it does) and, for a readlink that resolved,
\* the target it gave
Probe(op, path) == <<op, path, "pending", <<>>>>

\* the awaited call, the last of ps, settles
Settled(ps, status, value) ==
    [ps EXCEPT ![Len(ps)] = <<@[1], @[2], status, value>>]
NoResult == [success |-> TRUE, error |-> "none", called |-> FALSE]

(***************************************************************************)
(* extension.openInExplorer: one action per stretch between two awaits     *)
(***************************************************************************)
\* handleError: the message is localized with the language configured now
handleError(message) == getLocalizedMessage(message, loadConfig.language)

\* the run ends with an error shown to the user
Fail(shown) ==
    /\ pc' = "done"
    /\ outcome' = "Failed"
    /\ errorsShown' = Append(errorsShown, shown)
    /\ UNCHANGED <<pending, cmdResult, prompts, openPathCalls, execCalls,
                   editorCalls>>

\* platformHandler.openPath(path, isFile, getPlatformSpecificExplorer(...))
\* up to the await of execPromise
GoOpenPath(path, isFile) ==
    LET custom == getPlatformSpecificExplorer(platform, config)
        call == openPath(platform, path, isFile, custom)
        cmd  == executeCommand(call.commandBase, call.args, platform)
    IN  /\ openPathCalls' = Append(openPathCalls,
                                   [path |-> path, isFile |-> isFile,
                                    customExplorer |-> custom])
        /\ IF cmd.rejected
           THEN /\ pc' = "done"
                /\ outcome' = "Dispatched"
                /\ cmdResult' =
                       [success |-> FALSE, called |-> TRUE,
                        error |-> getLocalizedMessage("CUSTOM_EXPLORER_INVALID",
                                                      loadConfig.language)]
                /\ UNCHANGED <<pending, execCalls>>
           ELSE /\ pc' = "exec"
                /\ pending' = cmd.command
                /\ execCalls' = Append(execCalls, cmd.command)
                /\ UNCHANGED <<outcome, cmdResult>>
        /\ UNCHANGED <<prompts, editorCalls, errorsShown>>

\* vscode.workspace.openTextDocument(vscode.Uri.file(path)) is awaited
GoEditor(path) ==
    /\ pc' = "editorOpen"
    /\ editorCalls' = Append(editorCalls, path)
    /\ UNCHANGED <<pending, cmdResult, prompts, openPathCalls, execCalls,
                   errorsShown, outcome>>

\* processPath without the no-extension shortcut
HasNoExtensionUnchecked(path, plat) == FALSE

\* path.extname(normalizedPath) === '': the file is treated as a folder
HasNoExtension(path, plat) == extname(path, plat) = <<>>

\* the large-file branches with only the cancel button returning
LargeFileChoiceCancelOnly(result) ==
    IF result = "OPEN_IN_EXPLORER" THEN "explorer"
    ELSE IF result = "CANCEL" THEN "return"
    ELSE "editor"

\* the branch processPath takes on the answer to the large-file warning
LargeFileChoice(result) ==
    IF result = "OPEN_IN_EXPLORER" THEN "explorer"
    ELSE IF result # "OPEN_IN_VSCODE" THEN "return"
    ELSE "editor"

\* a file of exactly the limit counted as large
isLargeFileFromLimit(fileSize, largeFileSizeLimit) ==
    fileSize >= largeFileSizeLimit

\* const isLargeFile = fileSize > config.largeFileSizeLimit
isLargeFile(fileSize, largeFileSizeLimit) == fileSize > largeFileSizeLimit

\* processPath without the isTextMime branch: every file goes to openPath
AfterMimeAlwaysExplorer(isTextMime, fileSize) ==
    GoOpenPath(normalizedPath, TRUE)

\* processPath once the mime type is known
AfterMime(isTextMime, fileSize) ==
    IF isTextMime
    THEN IF isLargeFile(fileSize, config.largeFileSizeLimit)
            /\ config.confirmLargeFileOpen
         THEN /\ pc' = "largePrompt"
              /\ prompts' = Append(prompts, "largeFile")
              /\ UNCHANGED <<pending, cmdResult, openPathCalls, execCalls,
                             editorCalls, errorsShown, outcome>>
         ELSE GoEditor(normalizedPath)
    ELSE GoOpenPath(normalizedPath, TRUE)

\* processPath calling fs.stat before handleSymlink
processPathFirstProbeStat(p) == Probe("stat", p)

\* the first filesystem call of processPath: the fs.lstat of handleSymlink
processPathFirstProbe(p) == Probe("lstat", p)

\* the command is invoked: loadConfig, the editor and selection checks,
\* sanitizePath, validatePath, and processPath up to the await of fs.lstat
Invoke ==
    /\ pc = "idle"
    /\ \E ed \in BOOLEAN, sel \in RawSelections :
         LET rawSelectedText == Trim(sel)
             sanitized == sanitizePath(rawSelectedText, platform)
             validationError ==
                 validatePath(platform, sanitized, config'.allowRelativePaths)
         IN  /\ config' = loadConfig
             /\ editor' = ed
             /\ raw' = sel
             /\ IF ~ed
                THEN /\ Fail(handleError("NO_ACTIVE_EDITOR"))
                     /\ UNCHANGED <<selectedText, normalizedPath, linkPath,
                                    probes>>
                ELSE IF rawSelectedText = <<>>
                THEN /\ Fail(handleError("NO_VALID_PATH"))
                     /\ UNCHANGED <<selectedText, normalizedPath, linkPath,
                                    probes>>
                ELSE IF platform \notin SupportedPlatforms
                THEN /\ Fail(getLocalizedMessage("UNSUPPORTED_PLATFORM",
                                                 config'.language))
                     /\ selectedText' = sanitized
                     /\ UNCHANGED <<normalizedPath, linkPath, probes>>
                ELSE IF validationError # Null
                THEN /\ Fail(handleError(validationError))
                     /\ selectedText' = sanitized
                     /\ UNCHANGED <<normalizedPath, linkPath, probes>>
                ELSE /\ selectedText' = sanitized
                     /\ normalizedPath' = normalizePath(platform, sanitized)
                     /\ linkPath' = normalizedPath'
                     /\ probes' = Append(probes,
                                          processPathFirstProbe(linkPath'))
                     /\ pc' = "lstat"
                     /\ UNCHANGED <<pending, cmdResult, prompts, openPathCalls,
                                    execCalls, editorCalls, errorsShown,
                                    outcome>>
    /\ UNCHANGED <<platform, settings, stats, bytesToRead, replies, edits,
                   fnVars>>

\* handleSymlink returns p, its last awaited call having settled with
\* status and value, and processPath awaits fs.stat(p)
GoStat(p, status, value) ==
    /\ normalizedPath' = p
    /\ probes' = Append(Settled(probes, status, value), Probe("stat", p))
    /\ pc' = "stat"
    /\ UNCHANGED prompts

\* handleSymlink awaits fs.readlink(filePath)
GoReadlink(status) ==
    /\ probes' = Append(Settled(probes, status, <<>>),
                        Probe("readlink", linkPath))
    /\ pc' = "readlink"
    /\ UNCHANGED <<normalizedPath, prompts>>

\* handleSymlink asking about every link, whatever followSymlinks is
handleSymlinkAlwaysAsks(isSymbolicLink, followSymlinks) ==
    IF isSymbolicLink THEN "prompt" ELSE "return"

\* what handleSymlink does once fs.lstat has resolved
handleSymlinkDecision(isSymbolicLink, followSymlinks) ==
    IF isSymbolicLink
    THEN IF followSymlinks THEN "readlink" ELSE "prompt"
    ELSE "return"

\* fs.lstat rejecting with no catch around it: the rejection leaves
\* handleSymlink and processPath
LstatRejectedUncaught ==
    /\ probes' = Settled(probes, "error", <<>>)
    /\ pc' = "done"
    /\ UNCHANGED <<normalizedPath, prompts>>

\* fs.lstat rejects: the catch of handleSymlink returns filePath
LstatRejected == GoStat(linkPath, "error", <<>>)

\* fs.lstat(filePath) settles
Lstat ==
    /\ pc = "lstat"
    /\ \/ LstatRejected
       \/ \E isSymbolicLink \in BOOLEAN :
            LET status == IF isSymbolicLink THEN "symlink" ELSE "other"
                next == handleSymlinkDecision(isSymbolicLink,
                                              config.followSymlinks)
            IN  CASE next = "readlink" -> GoReadlink(status)
                  [] next = "prompt" ->
                        /\ prompts' = Append(prompts, "followSymlink")
                        /\ probes' = Settled(probes, status, <<>>)
                        /\ pc' = "symlinkPrompt"
                        /\ UNCHANGED normalizedPath
                  [] OTHER -> GoStat(linkPath, status, <<>>)
    /\ UNCHANGED <<platform, settings, config, editor, raw, selectedText,
                   linkPath, stats, bytesToRead, pending, cmdResult,
                   openPathCalls, execCalls, editorCalls, errorsShown, outcome,
                   replies, edits, fnVars>>

\* the follow-symlink prompt is answered or dismissed
SymlinkPrompt ==
    /\ pc = "symlinkPrompt"
    /\ \E result \in {"FOLLOW", "STAY", "dismissed"} :
         /\ replies' = Append(replies, result)
         /\ IF result = "FOLLOW"
            THEN /\ probes' = Append(probes, Probe("readlink", linkPath))
                 /\ pc' = "readlink"
                 /\ UNCHANGED normalizedPath
            ELSE /\ normalizedPath' = linkPath
                 /\ probes' = Append(probes, Probe("stat", linkPath))
                 /\ pc' = "stat"
    /\ UNCHANGED <<platform, settings, config, editor, raw, selectedText,
                   linkPath, stats, bytesToRead, pending, cmdResult, prompts,
                   openPathCalls, execCalls, editorCalls, errorsShown, outcome,
                   edits, fnVars>>

\* fs.readlink(filePath) settles
Readlink ==
    /\ pc = "readlink"
    /\ \/ GoStat(linkPath, "error", <<>>)            \* rejected: the catch
       \/ \E target \in LinkTargets : GoStat(target, "ok", target)
    /\ UNCHANGED <<platform, settings, config, editor, raw, selectedText,
                   linkPath, stats, bytesToRead, pending, cmdResult,
                   openPathCalls, execCalls, editorCalls, errorsShown, outcome,
                   replies, edits, fnVars>>

\* the catch of fs.stat reporting every rejection as a missing path
StatFailureAlwaysNotFound(code) == handleError("PATH_NOT_EXISTS")

\* the catch of fs.stat: what handleError is given to show
StatFailure(code) ==
    IF code = "ENOENT" THEN handleError("PATH_NOT_EXISTS")
    ELSE getLocalizedMessage("FILE_STAT_ERROR", config.language)

\* fs.stat(normalizedPath) settles, and processPath runs to its next await
Stat ==
    /\ pc = "stat"
    /\ \/ \E code \in {"ENOENT", "EIO"} :
            /\ Fail(StatFailure(code))
            /\ probes' = Settled(probes, code, <<>>)
            /\ UNCHANGED <<stats, bytesToRead>>
       \/ /\ stats' = [kind |-> "directory", size |-> 0]
          /\ GoOpenPath(normalizedPath, FALSE)
          /\ probes' = Settled(probes, "directory", <<>>)
          /\ UNCHANGED bytesToRead
       \/ \E size \in FileSizes :
            /\ stats' = [kind |-> "file", size |-> size]
            /\ IF HasNoExtension(normalizedPath, platform)
               THEN /\ GoOpenPath(normalizedPath, TRUE)
                    /\ probes' = Settled(probes, "file", <<>>)
                    /\ UNCHANGED bytesToRead
               ELSE LET mime == MimeByExtension(normalizedPath, platform) IN
                    IF mime = "scan"
                    THEN /\ bytesToRead' = ScanBytes(loadConfig.textFileScanBytes)
                         /\ probes' = Append(Settled(probes, "file", <<>>),
                                             Probe("open", normalizedPath))
                         /\ pc' = "read"
                         /\ UNCHANGED <<pending, cmdResult, prompts,
                                        openPathCalls, execCalls, editorCalls,
                                        errorsShown, outcome>>
                    ELSE /\ AfterMime(mime = "text", size)
                         /\ probes' = Settled(probes, "file", <<>>)
                         /\ UNCHANGED bytesToRead
    /\ UNCHANGED <<platform, settings, config, editor, raw, selectedText,
                   normalizedPath, linkPath, replies, edits, fnVars>>

\* the open/read/close of isTextFile settle, and processPath runs on
Read ==
    /\ pc = "read"
    /\ \/ /\ AfterMime(FALSE, stats.size)            \* rejected: the catch
          /\ probes' = Settled(probes, "error", <<>>)
       \/ \E content \in FileContents :
            /\ AfterMime(IsTextBuffer(content, bytesToRead), stats.size)
            /\ probes' = Settled(probes, "ok",
                                 IF IsTextBuffer(content, bytesToRead)
                                 THEN <<"text">> ELSE <<"binary">>)
    /\ UNCHANGED <<platform, settings, config, editor, raw, selectedText,
                   normalizedPath, linkPath, stats, bytesToRead,
                   replies, edits, fnVars>>

\* the large-file warning is answered or dismissed
LargePrompt ==
    /\ pc = "largePrompt"
    /\ \E result \in {"OPEN_IN_VSCODE", "OPEN_IN_EXPLORER", "CANCEL",
                      "dismissed"} :
         /\ replies' = Append(replies, result)
         /\ CASE LargeFileChoice(result) = "explorer" ->
                    GoOpenPath(normalizedPath, TRUE)
              [] LargeFileChoice(result) = "return" ->
                    /\ pc' = "done"
                    /\ outcome' = "Cancelled"
                    /\ UNCHANGED <<pending, cmdResult, prompts, openPathCalls,
                                   execCalls, editorCalls, errorsShown>>
              [] LargeFileChoice(result) = "editor" ->
                    GoEditor(normalizedPath)
    /\ UNCHANGED <<platform, settings, config, editor, raw, selectedText,
                   normalizedPath, linkPath, stats, bytesToRead, probes, edits,
                   fnVars>>

\* the catch around the editor open falling through to the openPath call
\* that ends processPath
EditorOpenRejectedFallsThrough == GoOpenPath(normalizedPath, TRUE)

\* openTextDocument or showTextDocument rejects: the catch reports it and
\* processPath returns
EditorOpenRejected == Fail(handleError("TEXT_FILE_OPEN_ERROR"))

\* openTextDocument / showTextDocument settle
EditorOpen ==
    /\ pc = "editorOpen"
    /\ \/ /\ pc' = "done"
          /\ outcome' = "OpenedInEditor"
          /\ UNCHANGED <<pending, cmdResult, prompts, openPathCalls, execCalls,
                         editorCalls, errorsShown>>
       \/ EditorOpenRejected
    /\ UNCHANGED <<platform, settings, config, editor, raw, selectedText,
                   normalizedPath, linkPath, stats, bytesToRead, probes,
                   replies, edits, fnVars>>

\* execPromise(command) settles; openPath drops what executeCommand returns
Exec ==
    /\ pc = "exec"
    /\ \E r \in {[success |-> TRUE, error |-> "none", called |-> TRUE],
                 [success |-> TRUE, error |-> "stderr", called |-> TRUE],
                 [success |-> FALSE, error |-> "error.message",
                  called |-> TRUE]} :
         cmdResult' = r
    /\ pc' = "done"
    /\ outcome' = "Dispatched"
    /\ UNCHANGED <<platform, settings, config, editor, raw, selectedText,
                   normalizedPath, linkPath, stats, bytesToRead, pending,
                   probes, prompts, replies, openPathCalls, execCalls,
                   editorCalls, errorsShown, edits, fnVars>>

\* the handler's promise has settled: its locals are gone
Return ==
    /\ pc = "done"
    /\ pc' = "idle"
    /\ editor' = FALSE
    /\ raw' = <<>>
    /\ selectedText' = <<>>
    /\ normalizedPath' = <<>>
    /\ linkPath' = <<>>
    /\ stats' = NoStats
    /\ bytesToRead' = 0
    /\ pending' = <<>>
    /\ cmdResult' = NoResult
    /\ probes' = <<>>
    /\ prompts' = <<>>
    /\ replies' = <<>>
    /\ openPathCalls' = <<>>
    /\ execCalls' = <<>>
    /\ editorCalls' = <<>>
    /\ errorsShown' = <<>>
    /\ outcome' = "None"
    /\ UNCHANGED <<platform, settings, config, edits, fnVars>>

\* the user changes one setting, at any moment
ChangeSetting ==
    /\ edits < MaxEdits
    /\ \E f \in DOMAIN SettingValues : \E v \in SettingValues[f] :
         /\ v # settings[f]
         /\ settings' = [settings EXCEPT ![f] = v]
    /\ edits' = edits + 1
    /\ UNCHANGED <<pc, platform, config, editor, raw, selectedText,
                   normalizedPath, linkPath, stats, bytesToRead, pending,
                   cmdResult, probes, prompts, replies, openPathCalls,
                   execCalls, editorCalls, errorsShown, outcome, fnVars>>

RunInit ==
    /\ pc = "idle"
    /\ settings = DefaultSettings
    /\ config = DefaultSettings
    /\ editor = FALSE
    /\ raw = <<>>
    /\ selectedText = <<>>
    /\ normalizedPath = <<>>
    /\ linkPath = <<>>
    /\ stats = NoStats
    /\ bytesToRead = 0
    /\ pending = <<>>
    /\ cmdResult = NoResult
    /\ probes = <<>>
    /\ prompts = <<>>
    /\ replies = <<>>
    /\ openPathCalls = <<>>
    /\ execCalls = <<>>
    /\ editorCalls = <<>>
    /\ errorsShown = <<>>
    /\ outcome = "None"
    /\ edits = 0

Init ==
    /\ RunInit
    /\ platform \in Platforms
    /\ fn = "none"
    /\ arg = <<>>
    /\ res = <<>>

Next ==
    \/ Invoke
    \/ Lstat
    \/ SymlinkPrompt
    \/ Readlink
    \/ Stat
    \/ Read
    \/ LargePrompt
    \/ EditorOpen
    \/ Exec
    \/ Return
    \/ ChangeSetting

Spec == Init /\ [][Next]_vars

(***************************************************************************)
(* Function-level specifications: the inputs are drawn by the initial      *)
(* predicate, the action applies the function                              *)
(***************************************************************************)
SanitizeInputs == StringsUpTo({SP, DQ, SQ, "a", DOT, FS, BS}, MaxStrLen)

InitSanitize ==
    /\ RunInit
    /\ platform \in SupportedPlatforms
    /\ fn = "sanitizePath"
    /\ arg \in SanitizeInputs
    /\ res = <<>>

\* sanitizePath applied to the input, then to its own result
SanitizeStep ==
    /\ fn = "sanitizePath"
    /\ Len(res) < 2
    /\ res' = Append(res, sanitizePath(IF res = <<>> THEN arg ELSE Last(res),
                                       platform))
    /\ UNCHANGED <<fn, arg, runVars>>

SpecSanitize == InitSanitize /\ [][SanitizeStep]_vars

PathPrefixes ==
    {<<>>,
     <<"C",":","\\">>,
     <<"c",":">>,
     <<"\\","\\","h","\\","s">>,
     <<"\\","\\","h","\\">>,
     <<"\\","\\">>,
     <<"/">>}

PathTails == StringsUpTo({"a", DOT, BS, FS, SP, COLON}, MaxTailLen)

ValidateInputs == {pre \o tail : pre \in PathPrefixes, tail \in PathTails}

InitValidate ==
    /\ RunInit
    /\ platform \in SupportedPlatforms
    /\ fn = "validatePath"
    /\ arg \in [selectedText : ValidateInputs, allowRelative : BOOLEAN]
    /\ res = <<>>

ValidateStep ==
    /\ fn = "validatePath"
    /\ res = <<>>
    /\ res' = <<validatePath(platform, arg.selectedText, arg.allowRelative)>>
    /\ UNCHANGED <<fn, arg, runVars>>

SpecValidate == InitValidate /\ [][ValidateStep]_vars

FileHeaders ==
    {<<>>, <<239, 187, 191>>, <<239, 187>>, <<254, 255>>, <<255, 254>>,
     <<0, 0, 254, 255>>, <<255>>}

FileBodies == StringsUpTo({0, 1, 9, 65, 127, 200}, MaxBodyLen)

ClassifyInputs == {h \o b : h \in FileHeaders, b \in FileBodies}

InitClassify ==
    /\ RunInit
    /\ platform = "linux"
    /\ fn = "isTextFile"
    /\ arg \in [content : ClassifyInputs, textFileScanBytes : 0..MaxScan]
    /\ res = <<>>

ClassifyStep ==
    /\ fn = "isTextFile"
    /\ res = <<>>
    /\ res' = <<isTextFile(arg.content, arg.textFileScanBytes)>>
    /\ UNCHANGED <<fn, arg, runVars>>

SpecClassify == InitClassify /\ [][ClassifyStep]_vars

\* the selected paths openPath is given
EscapeInputs == StringsUpTo({SQ, DQ, BS, SP, "a"}, MaxArgLen)

\* openPath has chosen the command and the arguments of executeCommand
InitEscape ==
    /\ RunInit
    /\ platform \in SupportedPlatforms
    /\ fn = "executeCommand"
    /\ \E isFile \in BOOLEAN, sel \in EscapeInputs,
          custom \in {<<>>, SafeCommand} :
          arg = openPath(platform, sel, isFile, custom)
    /\ res = <<>>

EscapeStep ==
    /\ fn = "executeCommand"
    /\ res = <<>>
    /\ res' = <<executeCommand(arg.commandBase, arg.args, platform)>>
    /\ UNCHANGED <<fn, arg, runVars>>

SpecEscape == InitEscape /\ [][EscapeStep]_vars

\* the normalized paths processPath hands to openPath
OpenPathInputs ==
    {normalizePath(platform, s) :
        s \in StringsUpTo({"a", DOT, FS, SQ}, MaxPathLen)}

InitOpenPath ==
    /\ RunInit
    /\ platform \in SupportedPlatforms
    /\ fn = "openPath"
    /\ arg \in [selectedText : OpenPathInputs \ {<<>>}, isFile : BOOLEAN,
                 customExplorer : {<<>>, BlankCommand, SafeCommand}]
    /\ res = <<>>

\* openPath up to the await of execPromise
OpenPathStep ==
    /\ fn = "openPath"
    /\ res = <<>>
    /\ LET call == openPath(platform, arg.selectedText, arg.isFile,
                            arg.customExplorer)
       IN  res' = <<executeCommand(call.commandBase, call.args, platform)>>
    /\ UNCHANGED <<fn, arg, runVars>>

SpecOpenPath == InitOpenPath /\ [][OpenPathStep]_vars

(***************************************************************************)
(* Properties                                                              *)
(***************************************************************************)
\* the run has consulted the filesystem, the dispatcher or the editor
NoProbe    == probes = <<>>
NoDispatch == openPathCalls = <<>> /\ execCalls = <<>>
NoEditor   == editorCalls = <<>>

IsBlankSelection(s) == \A i \in 1..Len(s) : s[i] \in {SP, DQ, SQ}

\* C1: a selection made only of whitespace and quote characters ends the
\* run in Failed with the NO_VALID_PATH message, without any filesystem
\* probe and without any dispatch, whatever allowRelativePaths is.
C1_BlankSelectionFailsWithoutProbe ==
    (pc # "idle" /\ editor /\ platform \in SupportedPlatforms
                 /\ IsBlankSelection(raw))
        => /\ NoProbe
           /\ NoDispatch
           /\ pc = "done"
           /\ outcome = "Failed"
           /\ Len(errorsShown) = 1
           /\ errorsShown[1].key = "NO_VALID_PATH"

\* a path segment equal to ".." under the separators of the platform
HasDotDotSegment(s, plat) ==
    LET segs == Split(s, IF plat = "win32" THEN WinSeps ELSE PosixSeps)
    IN  \E i \in 1..Len(segs) : segs[i] = DotDot

\* C2: on every platform and for both values of allowRelative, validatePath
\* rejects every string that has a ".." path segment.
C2_DotDotSegmentRejected ==
    (fn = "validatePath" /\ res # <<>>
        /\ HasDotDotSegment(arg.selectedText, platform))
        => res[1] # Null

\* C3: sanitizePath is idempotent: sanitizing its own result changes nothing.
C3_SanitizeIdempotent ==
    (fn = "sanitizePath" /\ Len(res) = 2) => res[2] = res[1]

\* the denylist in the words of the specification
DenylistChars == {";", "&", "|", ">", "<", "$", GRAVE, BS}
DenylistNames ==
    {<<"c","u","r","l">>, <<"w","g","e","t">>, <<"n","c">>,
     <<"n","c","a","t">>, <<"b","a","s","h">>, <<"s","h">>, <<"c","m","d">>,
     <<"p","o","w","e","r","s","h","e","l","l">>, <<"r","m">>,
     <<"r","m","d","i","r">>, <<"d","e","l">>,
     <<"f","o","r","m","a","t">>}

MatchesDenylist(command) ==
    \/ \E c \in DenylistChars : Includes(command, <<c>>)
    \/ \E w \in DenylistNames : Includes(ToLowerCase(command), w)

\* the custom command of the run: the snapshot's one for the current OS
RunCustomCommand ==
    CASE platform = "win32"  -> config.customExplorerWindows
      [] platform = "darwin" -> config.customExplorerMacOS
      [] platform = "linux"  -> config.customExplorerLinux
      [] OTHER               -> <<>>

\* C4: in a run whose custom explorer command for the current OS is
\* non-empty and matches the denylist, nothing is ever handed to the
\* process-exec collaborator, and a dispatch ends at once with
\* executeCommand returning the CUSTOM_EXPLORER_INVALID error.
C4_DangerousCommandNeverExecuted ==
    (pc # "idle" /\ RunCustomCommand # <<>>
                 /\ MatchesDenylist(RunCustomCommand))
        => /\ execCalls = <<>>
           /\ pc # "exec"
           /\ openPathCalls # <<>> =>
                 /\ pc = "done"
                 /\ cmdResult.called
                 /\ ~cmdResult.success
                 /\ cmdResult.error.key = "CUSTOM_EXPLORER_INVALID"

C4_Witness ==
    /\ pc = "done"
    /\ RunCustomCommand = DangerousCommand
    /\ Len(openPathCalls) = 1
    /\ cmdResult.called /\ ~cmdResult.success
    /\ execCalls = <<>>

\* the last segment of the path has no "." after its first character
NameWithoutDot(path, plat) ==
    LET segs == Split(path, IF plat = "win32" THEN WinSeps ELSE PosixSeps)
        names == {i \in 1..Len(segs) : segs[i] # <<>>}
        name == IF names = {} THEN <<>>
                ELSE segs[CHOOSE i \in names : \A j \in names : j <= i]
    IN  name = DotDot \/ \A i \in 2..Len(name) : name[i] # DOT

StatSaysFile == stats.kind = "file"

\* C5: once stat reports a regular file whose path has an empty extension,
\* the run only dispatches: openPath is invoked exactly once for that path
\* as a file, the editor is never asked to open it, the file is never
\* opened for classification, no large-file prompt is shown, and the run
\* ends in Dispatched; whatever the size and the content.
C5_NoExtensionAlwaysDispatched ==
    (StatSaysFile /\ NameWithoutDot(normalizedPath, platform))
        => /\ pc \in {"exec", "done"}
           /\ Len(openPathCalls) = 1
           /\ openPathCalls[1].path = normalizedPath
           /\ openPathCalls[1].isFile
           /\ NoEditor
           /\ \A i \in 1..Len(probes) : probes[i][1] # "open"
           /\ \A i \in 1..Len(prompts) : prompts[i] # "largeFile"
           /\ pc = "done" => outcome = "Dispatched"

C5_Witness ==
    /\ pc = "done"
    /\ StatSaysFile
    /\ stats.size > config.largeFileSizeLimit
    /\ config.confirmLargeFileOpen
    /\ extname(normalizedPath, platform) = <<>>
    /\ outcome = "Dispatched"
    /\ Len(execCalls) = 1

LargePromptShown == \E i \in 1..Len(prompts) : prompts[i] = "largeFile"

\* C6: once the large-file prompt is shown, nothing is opened or dispatched
\* until it is answered; "open normally" leads to the editor alone, "open
\* in explorer" to the dispatcher alone, and "cancel" or a dismissal ends
\* the run in Cancelled with neither the editor nor the dispatcher invoked.
C6_LargeFilePromptRoutes ==
    LargePromptShown =>
        \/ /\ pc = "largePrompt"
           /\ NoEditor /\ NoDispatch
        \/ /\ pc # "largePrompt"
           /\ Last(replies) = "OPEN_IN_VSCODE"
           /\ editorCalls = <<normalizedPath>>
           /\ NoDispatch
        \/ /\ pc # "largePrompt"
           /\ Last(replies) = "OPEN_IN_EXPLORER"
           /\ Len(openPathCalls) = 1
           /\ NoEditor
        \/ /\ pc = "done"
           /\ Last(replies) \in {"CANCEL", "dismissed"}
           /\ outcome = "Cancelled"
           /\ NoEditor /\ NoDispatch

C6_Witness ==
    /\ pc = "done"
    /\ LargePromptShown
    /\ Last(replies) = "dismissed"
    /\ outcome = "Cancelled"

\* the bytes isTextFile has read of the file it was given
ClassifiedBytes ==
    SubSeq(arg.content, 1,
           Min(Len(arg.content),
               IF arg.textFileScanBytes = 0 THEN DefaultScanBytes
               ELSE arg.textFileScanBytes))

Classified == fn = "isTextFile" /\ res # <<>>

UTF8_BOM    == <<239, 187, 191>>
UTF16BE_BOM == <<254, 255>>
UTF16LE_BOM == <<255, 254>>
UTF32LE_BOM == <<255, 254, 0, 0>>
UTF32BE_BOM == <<0, 0, 254, 255>>

\* C7: when at least 3 bytes are read and the first three are EF BB BF,
\* isTextFile returns Text, NUL bytes after them notwithstanding.
C7_Utf8BomBeatsNul ==
    (Classified /\ Len(ClassifiedBytes) >= 3
                /\ StartsWith(ClassifiedBytes, UTF8_BOM))
        => res[1] = TRUE

C7_Witness ==
    /\ Classified
    /\ Len(ClassifiedBytes) >= 5
    /\ StartsWith(ClassifiedBytes, UTF8_BOM)
    /\ \A i \in 4..Len(ClassifiedBytes) : ClassifiedBytes[i] = 0
    /\ res[1] = TRUE

\* the bytes read start with a BOM that forces Text
StartsWithTextBom(bytes) ==
    \/ StartsWith(bytes, UTF8_BOM)
    \/ StartsWith(bytes, UTF16BE_BOM)
    \/ StartsWith(bytes, UTF16LE_BOM) /\ ~StartsWith(bytes, UTF32LE_BOM)
    \/ StartsWith(bytes, UTF32BE_BOM)

HasNul(bytes) == \E i \in 1..Len(bytes) : bytes[i] = 0

\* C8: when the bytes read do not start with a Text-forcing BOM and hold a
\* NUL byte, isTextFile returns Binary.
C8_NulMeansBinary ==
    (Classified /\ ~StartsWithTextBom(ClassifiedBytes)
                /\ HasNul(ClassifiedBytes))
        => res[1] = FALSE

C8_Witness ==
    /\ Classified
    /\ Len(ClassifiedBytes) >= 4
    /\ \A i \in 1..Len(ClassifiedBytes) : ClassifiedBytes[i] = 0
    /\ res[1] = FALSE

\* the bytes read start with no BOM pattern at all
BomFree(bytes) ==
    /\ ~StartsWith(bytes, UTF8_BOM)
    /\ ~StartsWith(bytes, UTF16BE_BOM)
    /\ ~StartsWith(bytes, UTF16LE_BOM)
    /\ ~StartsWith(bytes, UTF32BE_BOM)

ControlCount(bytes) ==
    Cardinality({i \in 1..Len(bytes) :
                    \/ bytes[i] < 32 /\ bytes[i] \notin {9, 10, 13}
                    \/ bytes[i] = 127})

HighCount(bytes) == Cardinality({i \in 1..Len(bytes) : bytes[i] > 127})

MatchesLocalDrive(s) ==
    /\ Len(s) > 3
    /\ SubSeq(s, 2, 3) = <<COLON, BS>>
    /\ s[1] \in Letters
    /\ {s[i] : i \in 4..Len(s)} \cap {"<", ">", COLON, DQ, "|", "?", "*"} = {}

\* the UNC prefix: "\\", a host, "\", the start of a share; host and share
\* hold neither whitespace nor "\"
StartsWithUnc(s) ==
    /\ StartsWith(s, <<BS, BS>>)
    /\ LET parts == Split(SubSeq(s, 3, Len(s)), {BS})
       IN  /\ Len(parts) >= 2
           /\ parts[1] # <<>>
           /\ \A i \in 1..Len(parts[1]) : parts[1][i] # SP
           /\ parts[2] # <<>>
           /\ parts[2][1] # SP

\* C10: the Windows validatePath accepts every local-drive path and every
\* string starting with a UNC prefix, whatever allowRelative is; any
\* other string is accepted exactly when allowRelative is true and the
\* string does not contain "..", and is rejected with
\* WINDOWS_PATH_INVALID otherwise.
C10_WindowsValidatePath ==
    (fn = "validatePath" /\ res # <<>> /\ platform = "win32")
        => IF MatchesLocalDrive(arg.selectedText)
              \/ StartsWithUnc(arg.selectedText)
           THEN res[1] = Null
           ELSE IF arg.allowRelative /\ ~Includes(arg.selectedText, DotDot)
           THEN res[1] = Null
           ELSE res[1] = WINDOWS_PATH_INVALID

C10_Witness ==
    /\ fn = "validatePath" /\ res # <<>> /\ platform = "win32"
    /\ ~arg.allowRelative
    /\ StartsWithUnc(arg.selectedText)
    /\ ~MatchesLocalDrive(arg.selectedText)
    /\ res[1] = Null

\* the platform's reason for rejecting a path
PathInvalidReason(plat) ==
    CASE plat = "win32"  -> "WINDOWS_PATH_INVALID"
      [] plat = "darwin" -> "MACOS_PATH_INVALID"
      [] plat = "linux"  -> "LINUX_PATH_INVALID"

\* a leading "/" followed by at least one character
IsAbsolutePosix(s) == Len(s) > 1 /\ Head(s) = FS

\* C11: the macOS and Linux validatePath accept every absolute path with
\* no path segment equal to ".." (segments that merely contain two dots
\* included), accept a non-absolute path exactly when allowRelative is true
\* and it has no ".." segment, and reject everything else with the reason
\* of the OS.
C11_PosixValidatePath ==
    (fn = "validatePath" /\ res # <<>> /\ platform \in {"darwin", "linux"})
        => IF ~HasDotDotSegment(arg.selectedText, platform)
              /\ (IsAbsolutePosix(arg.selectedText) \/ arg.allowRelative)
           THEN res[1] = Null
           ELSE res[1] = PathInvalidReason(platform)

\* executeCommand has returned an error outcome: a rejected custom command,
\* a failed process, or text on standard error
DispatchErrored ==
    /\ cmdResult.called
    /\ \/ ~cmdResult.success
       \/ cmdResult.error = "stderr"

\* C12: whenever a dispatch ends in an error outcome (the custom command is
\* rejected, the process exits with an error, or it writes to standard
\* error), the run shows an error message to the user and ends in Failed.
C12_DispatchErrorSurfaced ==
    (pc = "done" /\ DispatchErrored)
        => /\ outcome = "Failed"
           /\ errorsShown # <<>>

\* the language of the messages of MESSAGES under a configuration
MessageLanguage(cfg) == IF cfg.language = "en" THEN "en" ELSE "ja"

\* the scan size a configuration asks for
ConfiguredScanBytes(cfg) ==
    IF cfg.textFileScanBytes = 0 THEN 4096 ELSE cfg.textFileScanBytes

\* C13: a run uses the configuration snapshot taken at its start: whatever
\* is changed while it is in progress or suspended, every error it shows is
\* in the snapshot's language and the content scan reads the snapshot's
\* number of bytes.
C13_RunUsesItsSnapshot ==
    /\ \A i \in 1..Len(errorsShown) :
          errorsShown[i].language = MessageLanguage(config)
    /\ pc = "read" => bytesToRead = ConfiguredScanBytes(config)

\* the words a POSIX shell reads in s from position i on: single quotes
\* keep every character, a backslash outside quotes keeps the next one,
\* double quotes keep all but an escaped \ or ", blanks part the words
RECURSIVE PosixWordsFrom(_, _, _, _, _)
PosixWordsFrom(s, i, mode, cur, inWord) ==
    IF i > Len(s)
    THEN IF mode # "plain" THEN <<cur, <<"unterminated">>>>
         ELSE IF inWord THEN <<cur>> ELSE <<>>
    ELSE LET c == s[i] IN
         CASE mode = "single" ->
                 IF c = SQ THEN PosixWordsFrom(s, i + 1, "plain", cur, TRUE)
                 ELSE PosixWordsFrom(s, i + 1, "single", Append(cur, c), TRUE)
           [] mode = "double" ->
                 IF c = DQ THEN PosixWordsFrom(s, i + 1, "plain", cur, TRUE)
                 ELSE IF c = BS /\ i < Len(s) /\ s[i + 1] \in {BS, DQ}
                 THEN PosixWordsFrom(s, i + 2, "double",
                                     Append(cur, s[i + 1]), TRUE)
                 ELSE PosixWordsFrom(s, i + 1, "double", Append(cur, c), TRUE)
           [] OTHER ->
                 IF c = SQ THEN PosixWordsFrom(s, i + 1, "single", cur, TRUE)
                 ELSE IF c = DQ
                 THEN PosixWordsFrom(s, i + 1, "double", cur, TRUE)
                 ELSE IF c = BS /\ i < Len(s)
                 THEN PosixWordsFrom(s, i + 2, "plain",
                                     Append(cur, s[i + 1]), TRUE)
                 ELSE IF c = SP
                 THEN (IF inWord THEN <<cur>> ELSE <<>>)
                          \o PosixWordsFrom(s, i + 1, "plain", <<>>, FALSE)
                 ELSE PosixWordsFrom(s, i + 1, "plain", Append(cur, c), TRUE)

PosixWords(s) == PosixWordsFrom(s, 1, "plain", <<>>, FALSE)

\* a wrapped in double quotes, each of its own double quotes written twice
RECURSIVE DoubledQuotes(_)
DoubledQuotes(a) ==
    IF a = <<>> THEN <<>>
    ELSE IF Last(a) = DQ THEN DoubledQuotes(Front(a)) \o <<DQ, DQ>>
    ELSE Append(DoubledQuotes(Front(a)), Last(a))

WindowsQuoted(a) == <<DQ>> \o DoubledQuotes(a) \o <<DQ>>

\* the command line of a command and its quoted arguments
RECURSIVE WindowsLine(_, _)
WindowsLine(line, args) ==
    IF args = <<>> THEN line
    ELSE WindowsLine(line \o <<SP>> \o WindowsQuoted(Head(args)), Tail(args))

EscapeDone == fn = "executeCommand" /\ res # <<>>

\* C14: every argument given to executeCommand is escaped before it is put
\* in the command line, and the escaping round-trips: off Windows, a POSIX
\* shell reads the command line as the command followed by exactly the
\* arguments, one word each, quote characters in them included; on Windows
\* each argument stands in double quotes with its own double quotes doubled.
C14_EscapedArgumentsRoundTrip ==
    EscapeDone =>
        /\ ~res[1].rejected
        /\ IF platform = "win32"
           THEN res[1].command = WindowsLine(arg.commandBase, arg.args)
           ELSE PosixWords(res[1].command) = <<arg.commandBase>> \o arg.args

C14_Witness ==
    /\ EscapeDone
    /\ platform = "darwin"
    /\ Len(arg.args) = 2
    /\ Len(arg.args[2]) > 2
    /\ arg.args[2][1] = SQ /\ arg.args[2][2] = BS /\ Last(arg.args[2]) = SQ
    /\ PosixWords(res[1].command) = <<arg.commandBase>> \o arg.args

\* the i-th awaited filesystem call of the run
ProbeOp(i)     == probes[i][1]
ProbePath(i)   == probes[i][2]
ProbeStatus(i) == probes[i][3]
ProbeValue(i)  == probes[i][4]

SymlinkPromptShown == \E i \in 1..Len(prompts) : prompts[i] = "followSymlink"

\* handleSymlink has returned p: the fs.stat of processPath is the second
\* or third call of the run and is made on p
SymlinkReturned(p) ==
    \E i \in 2..Len(probes) :
        /\ ProbeOp(i) = "stat"
        /\ ProbePath(i) = p
        /\ \A j \in 1..(i - 1) : ProbeOp(j) \in {"lstat", "readlink"}

\* handleSymlink has returned something
SymlinkDone == \E i \in 1..Len(probes) : ProbeOp(i) = "stat"

\* the link read has resolved with a target
LinkRead == Len(probes) >= 2 /\ ProbeOp(2) = "readlink"
                /\ ProbeStatus(2) = "ok"

\* C15: the decision table of handleSymlink. A symbolic link with
\* followSymlinks true: no prompt, the link is read and its target
\* returned. A symbolic link with followSymlinks false: the prompt is
\* shown; on "follow" the link is read and its target returned, on "open
\* link itself" or a dismissal the original path is returned without
\* reading the link. Not a symbolic link: the original path is returned,
\* with no prompt and no link read.
C15_HandleSymlinkDecisionTable ==
    (probes # <<>> /\ ProbeStatus(1) \in {"symlink", "other"}) =>
        /\ ProbeOp(1) = "lstat" /\ ProbePath(1) = linkPath
        /\ LinkRead => SymlinkReturned(ProbeValue(2))
        /\ IF ProbeStatus(1) = "other"
           THEN /\ ~SymlinkPromptShown
                /\ SymlinkReturned(linkPath)
           ELSE IF config.followSymlinks
           THEN /\ ~SymlinkPromptShown
                /\ ProbeOp(2) = "readlink" /\ ProbePath(2) = linkPath
           ELSE /\ prompts[1] = "followSymlink"
                /\ pc = "symlinkPrompt" <=> replies = <<>>
                /\ replies # <<>> =>
                      IF replies[1] = "FOLLOW"
                      THEN ProbeOp(2) = "readlink" /\ ProbePath(2) = linkPath
                      ELSE /\ replies[1] \in {"STAY", "dismissed"}
                           /\ SymlinkReturned(linkPath)
                           /\ ProbeOp(2) = "stat"

C15_Witness ==
    /\ probes # <<>> /\ ProbeStatus(1) = "symlink"
    /\ ~config.followSymlinks
    /\ replies # <<>> /\ replies[1] = "FOLLOW"
    /\ LinkRead
    /\ SymlinkReturned(ProbeValue(2))
    /\ ProbeValue(2) # linkPath

\* the handler has reached validatePath and the path was refused
ValidationFailed ==
    /\ pc # "idle" /\ editor /\ Trim(raw) # <<>>
    /\ platform \in SupportedPlatforms
    /\ validatePath(platform, selectedText, config.allowRelativePaths) # Null

\* the fs.stat of processPath has rejected with the given code
StatFailed(code) ==
    \E i \in 1..Len(probes) : ProbeOp(i) = "stat" /\ ProbeStatus(i) = code

\* the run has ended in Failed after showing the one message with this key
FailedWith(key) ==
    /\ pc = "done"
    /\ outcome = "Failed"
    /\ Len(errorsShown) = 1
    /\ errorsShown[1].key = key

\* C16: failure is terminal. After a validation failure the run has shown
\* the reason of the platform and made no filesystem probe; after a stat
\* failure it has shown "path does not exist" when the error is not-found
\* and the wrapped stat-error reason otherwise; in both cases neither the
\* dispatcher nor the editor is invoked.
C16_FailureIsTerminal ==
    /\ ValidationFailed =>
          /\ FailedWith(PathInvalidReason(platform))
          /\ NoProbe /\ NoDispatch /\ NoEditor
    /\ StatFailed("ENOENT") =>
          /\ FailedWith("PATH_NOT_EXISTS")
          /\ ProbeOp(Len(probes)) = "stat"
          /\ NoDispatch /\ NoEditor
    /\ StatFailed("EIO") =>
          /\ FailedWith("FILE_STAT_ERROR")
          /\ ProbeOp(Len(probes)) = "stat"
          /\ NoDispatch /\ NoEditor

C16_Witness ==
    /\ StatFailed("EIO")
    /\ FailedWith("FILE_STAT_ERROR")
    /\ Len(probes) = 3
    /\ NoDispatch /\ NoEditor

\* fs.stat has reported a regular file with an extension that processPath
\* has classified as text
ClassifiedText ==
    /\ StatSaysFile
    /\ ~NameWithoutDot(normalizedPath, platform)
    /\ \/ MimeByExtension(normalizedPath, platform) = "text"
       \/ editorCalls # <<>>
       \/ LargePromptShown

\* C17 as stated: for a file with an extension classified Text, with
\* confirmLargeFileOpen enabled, the three-way prompt is shown whenever the
\* size is at or above largeFileSizeLimit, the limit itself included, and
\* is not shown below it.
C17_PromptAtOrAboveLimit ==
    (ClassifiedText /\ config.confirmLargeFileOpen)
        => (LargePromptShown <=> stats.size >= config.largeFileSizeLimit)

\* C17 amended: the prompt is shown exactly when the size is strictly above
\* largeFileSizeLimit; a file of exactly the limit is opened without it.
C17_PromptAboveLimit ==
    (ClassifiedText /\ config.confirmLargeFileOpen)
        => /\ LargePromptShown <=> stats.size > config.largeFileSizeLimit
           /\ ~LargePromptShown => editorCalls = <<normalizedPath>>

C17_Witness ==
    /\ ClassifiedText /\ config.confirmLargeFileOpen
    /\ stats.size = config.largeFileSizeLimit
    /\ ~LargePromptShown
    /\ editorCalls = <<normalizedPath>>
    /\ outcome = "OpenedInEditor"

\* a call or prompt of the symlink resolution has been made
SymlinkResolutionStarted ==
    \/ \E i \in 1..Len(probes) : ProbeOp(i) \in {"lstat", "readlink"}
    \/ SymlinkPromptShown

\* C18 as stated: the stat probe of the validated path happens before any
\* symlink resolution (link-status probe, link read or follow prompt), and
\* symlink resolution is never reached when the stat fails.
C18_StatBeforeSymlinkResolution ==
    SymlinkResolutionStarted =>
        /\ ProbeOp(1) = "stat"
        /\ ProbeStatus(1) \notin {"pending", "ENOENT", "EIO"}

\* C18 amended: symlink resolution comes before the stat. The first probe
\* of a run is the link-status probe of the validated path; the link read
\* and the follow prompt come only before the stat; the stat is made once,
\* on the path the resolution returned; the content scan comes only after
\* a stat that reported a file, and when the stat fails no probe, prompt,
\* dispatch or editor open follows it.
C18_SymlinkResolutionBeforeStat ==
    probes # <<>> =>
        /\ ProbeOp(1) = "lstat"
        /\ ProbePath(1) = normalizePath(platform, selectedText)
        /\ \A i \in 2..Len(probes) : ProbeOp(i) # "lstat"
        /\ \A i, j \in 1..Len(probes) :
              /\ (ProbeOp(i) = "stat" /\ ProbeOp(j) = "stat") => i = j
              /\ (ProbeOp(i) = "readlink" /\ ProbeOp(j) = "stat") => i < j
              /\ (ProbeOp(i) = "stat" /\ ProbeOp(j) = "open") =>
                    i < j /\ ProbeStatus(i) = "file"
        /\ \A i \in 1..Len(probes) :
              ProbeOp(i) = "stat" =>
                 /\ ProbePath(i) = normalizedPath
                 /\ ProbeStatus(i) = "pending" =>
                       (pc = "stat" /\ NoDispatch /\ NoEditor
                           /\ ~LargePromptShown)
                 /\ ProbeStatus(i) \in {"ENOENT", "EIO"} =>
                       (i = Len(probes) /\ pc = "done" /\ NoDispatch
                           /\ NoEditor /\ ~LargePromptShown)
        /\ pc \in {"lstat", "symlinkPrompt", "readlink"} =>
              \A i \in 1..Len(probes) : ProbeOp(i) \notin {"stat", "open"}

C18_Witness ==
    /\ Len(probes) = 3
    /\ ProbeOp(1) = "lstat" /\ ProbeStatus(1) = "symlink"
    /\ ProbeOp(2) = "readlink" /\ ProbeStatus(2) = "ok"
    /\ ProbeOp(3) = "stat" /\ ProbeStatus(3) = "ENOENT"
    /\ ProbePath(3) = ProbeValue(2)
    /\ pc = "done" /\ outcome = "Failed"

\* the i-th call is a call of handleSymlink that rejected
SymlinkProbeFailed(i) ==
    ProbeOp(i) \in {"lstat", "readlink"} /\ ProbeStatus(i) = "error"

\* C19: when the link-status probe or the link read of handleSymlink
\* fails, handleSymlink returns the original path: the next call of the run
\* is the stat of that path, nothing has been shown to the user for the
\* failure (no prompt after it, and no error but those of the stat and of
\* the editor open that follow), and the run is at the stat step rather
\* than ended.
C19_SymlinkFailureFallsBack ==
    \A i \in 1..Len(probes) :
        SymlinkProbeFailed(i) =>
            /\ Len(probes) > i
            /\ ProbeOp(i + 1) = "stat"
            /\ ProbePath(i + 1) = linkPath
            /\ ProbePath(i + 1) = normalizePath(platform, selectedText)
            /\ normalizedPath = linkPath
            /\ ProbeOp(i) = "lstat" => ~SymlinkPromptShown
            /\ SymlinkPromptShown =>
                  (prompts[1] = "followSymlink" /\ replies # <<>>
                      /\ replies[1] = "FOLLOW")
            /\ ProbeStatus(i + 1) = "pending" =>
                  /\ pc = "stat"
                  /\ outcome = "None"
                  /\ errorsShown = <<>>
            /\ \A k \in 1..Len(errorsShown) :
                  errorsShown[k].key \in {"PATH_NOT_EXISTS", "FILE_STAT_ERROR",
                                          "TEXT_FILE_OPEN_ERROR"}

C19_Witness ==
    /\ Len(probes) = 3
    /\ ProbeOp(1) = "lstat" /\ ProbeStatus(1) = "symlink"
    /\ SymlinkProbeFailed(2)
    /\ ProbeOp(3) = "stat" /\ ProbeStatus(3) = "directory"
    /\ ProbePath(3) = linkPath
    /\ errorsShown = <<>>
    /\ openPathCalls # <<>>

\* C20: within one run the external command is executed at most once and
\* the editor open is attempted at most once, and never both: a failed
\* editor open is not followed by a dispatch, a failed dispatch is not
\* followed by an editor open, and neither is retried.
C20_AtMostOneTerminalAction ==
    /\ Len(execCalls) <= 1
    /\ Len(openPathCalls) <= 1
    /\ Len(editorCalls) <= 1
    /\ ~(editorCalls # <<>> /\ (execCalls # <<>> \/ openPathCalls # <<>>))
    /\ (execCalls # <<>> \/ editorCalls # <<>>) =>
          pc \in {"exec", "editorOpen", "done"}

C20_Witness ==
    /\ pc = "done"
    /\ outcome = "Failed"
    /\ Len(editorCalls) = 1
    /\ errorsShown # <<>>
    /\ errorsShown[1].key = "TEXT_FILE_OPEN_ERROR"
    /\ NoDispatch

\* C21: whenever the bytes read start with FF FE and not with the four
\* bytes FF FE 00 00 (files of only 2 or 3 bytes included), isTextFile
\* returns Text; bytes starting with FF FE 00 00 are not forced to Text by
\* the BOM rule, so the NUL bytes in them give Binary.
C21_Utf16LeBomMeansText ==
    (Classified /\ StartsWith(ClassifiedBytes, UTF16LE_BOM)) =>
        IF StartsWith(ClassifiedBytes, UTF32LE_BOM)
        THEN res[1] = FALSE
        ELSE res[1] = TRUE

\* the last segment of a path
LastName(path, plat) ==
    LET segs == Split(path, IF plat = "win32" THEN WinSeps ELSE PosixSeps)
        names == {i \in 1..Len(segs) : segs[i] # <<>>}
    IN  IF names = {} THEN <<>>
        ELSE segs[CHOOSE i \in names : \A j \in names : j <= i]

\* the part of a name from its last "." on, in lower case; empty when the
\* only dots are leading ones
NameSuffix(name) ==
    LET dots == {i \in 2..Len(name) : name[i] = DOT}
    IN  IF dots = {} \/ name = DotDot THEN <<>>
        ELSE ToLowerCase(SubSeq(name, CHOOSE i \in dots : \A j \in dots : j <= i,
                                Len(name)))

\* what the extension of a path says about its content
ExtensionClass(path, plat) ==
    IF NameSuffix(LastName(path, plat)) \in textExtensions THEN "text"
    ELSE IF NameSuffix(LastName(path, plat)) \in binaryExtensions THEN "binary"
    ELSE "unknown"

\* the content scan of the run has settled
ScanSettled ==
    /\ probes # <<>>
    /\ ProbeOp(Len(probes)) = "open"
    /\ ProbeStatus(Len(probes)) # "pending"

\* the class determineMimeType has given the file of the run
ClassifiedAs(class) ==
    /\ StatSaysFile
    /\ NameSuffix(LastName(normalizedPath, platform)) # <<>>
    /\ \/ ExtensionClass(normalizedPath, platform) = class
       \/ /\ ExtensionClass(normalizedPath, platform) = "unknown"
          /\ ScanSettled
          /\ IF ProbeStatus(Len(probes)) = "error" THEN class = "binary"
             ELSE ProbeValue(Len(probes)) = <<class>>

\* C22: after a successful stat, a directory is dispatched without
\* classification; a file with an extension classified Binary is
\* dispatched; a file with an extension classified Text whose size is below
\* the large-file threshold is opened in the editor without any prompt.
C22_TerminalActionAfterStat ==
    /\ stats.kind = "directory" =>
          /\ pc \in {"exec", "done"}
          /\ Len(openPathCalls) = 1
          /\ openPathCalls[1].path = normalizedPath
          /\ ~openPathCalls[1].isFile
          /\ NoEditor /\ ~LargePromptShown
          /\ \A i \in 1..Len(probes) : ProbeOp(i) # "open"
    /\ ClassifiedAs("binary") =>
          /\ pc \in {"exec", "done"}
          /\ Len(openPathCalls) = 1
          /\ openPathCalls[1].path = normalizedPath
          /\ openPathCalls[1].isFile
          /\ NoEditor /\ ~LargePromptShown
    /\ (ClassifiedAs("text") /\ stats.size < config.largeFileSizeLimit) =>
          /\ pc \in {"editorOpen", "done"}
          /\ editorCalls = <<normalizedPath>>
          /\ NoDispatch /\ ~LargePromptShown

C22_Witness ==
    /\ ClassifiedAs("text")
    /\ ExtensionClass(normalizedPath, platform) = "unknown"
    /\ stats.size < config.largeFileSizeLimit
    /\ pc = "done"
    /\ outcome = "OpenedInEditor"

\* the directory that holds a normalized POSIX path: the path without its
\* last segment, "/" for an entry of the root and "." for a bare name
ParentDirectory(path) ==
    LET slashes == {i \in 1..Len(path) : path[i] = FS}
        bare == IF path # <<>> /\ Last(path) = FS /\ Len(path) > 1
                THEN Front(path) ELSE path
        cuts == {i \in 1..Len(bare) : bare[i] = FS}
        cut == IF cuts = {} THEN 0
               ELSE CHOOSE i \in cuts : \A j \in cuts : j <= i
    IN  IF cut = 0 THEN <<DOT>>
        ELSE IF cut = 1 THEN <<FS>>
        ELSE SubSeq(bare, 1, cut - 1)

\* no custom command, or a blank one
NoCustomCommand(c) == \A i \in 1..Len(c) : c[i] = SP

OpenPathDone == fn = "openPath" /\ res # <<>>

\* C23: with no non-blank custom command the dispatched command is the
\* built-in one of the OS: explorer.exe with "/select," and the path for a
\* file and the bare path for a directory; open with -R and the path for a
\* file and the bare path for a directory; xdg-open with the parent
\* directory of the path for a file and the bare path for a directory.
C23_BuiltinCommands ==
    (OpenPathDone /\ NoCustomCommand(arg.customExplorer)) =>
        /\ ~res[1].rejected
        /\ CASE platform = "win32" ->
                  res[1].command =
                      WindowsLine(<<"e","x","p","l","o","r","e","r",".","e","x","e">>,
                                  IF arg.isFile
                                  THEN <<<<"/","s","e","l","e","c","t",",">>,
                                         arg.selectedText>>
                                  ELSE <<arg.selectedText>>)
             [] platform = "darwin" ->
                  PosixWords(res[1].command) =
                      IF arg.isFile
                      THEN <<<<"o","p","e","n">>, <<"-","R">>, arg.selectedText>>
                      ELSE <<<<"o","p","e","n">>, arg.selectedText>>
             [] platform = "linux" ->
                  PosixWords(res[1].command) =
                      <<<<"x","d","g","-","o","p","e","n">>,
                        IF arg.isFile THEN ParentDirectory(arg.selectedText)
                        ELSE arg.selectedText>>

C23_Witness ==
    /\ OpenPathDone
    /\ platform = "linux"
    /\ arg.customExplorer = <<SP>>
    /\ arg.isFile
    /\ Len(arg.selectedText) = 4
    /\ arg.selectedText[1] = FS /\ arg.selectedText[3] = FS
    /\ PosixWords(res[1].command)[2] = SubSeq(arg.selectedText, 1, 2)

\* the run has opened the file to read its content
ContentScanned == \E i \in 1..Len(probes) : ProbeOp(i) = "open"

\* C24: determineMimeType decides on the extension, compared without
\* regard to case: a file with an extension of the text list is taken as
\* Text and one with an extension of the binary list as Binary, in both
\* cases without the file being read, whatever its content; the file is
\* read only when its extension is in neither list.
C24_ExtensionShortCircuits ==
    (StatSaysFile /\ NameSuffix(LastName(normalizedPath, platform)) # <<>>) =>
        LET class == ExtensionClass(normalizedPath, platform) IN
        /\ class = "text" =>
              /\ ~ContentScanned
              /\ LargePromptShown \/ editorCalls = <<normalizedPath>>
        /\ class = "binary" =>
              /\ ~ContentScanned
              /\ Len(openPathCalls) = 1
              /\ NoEditor /\ ~LargePromptShown
        /\ class = "unknown" => ContentScanned

C24_Witness ==
    /\ StatSaysFile
    /\ NameSuffix(LastName(normalizedPath, platform)) = <<".", "p", "n", "g">>
    /\ extname(normalizedPath, platform) = <<".", "P", "N", "G">>
    /\ ~ContentScanned
    /\ pc = "done"
    /\ outcome = "Dispatched"

\* the selection as the user made it, without the surrounding blanks and
\* quote characters
SelectedPath ==
    LET NotQuote(c) == c \notin {DQ, SQ} IN SelectSeq(Trim(raw), NotQuote)

Sanitized ==
    pc # "idle" /\ editor /\ Trim(raw) # <<>>

C26_HandedPathsAreValid ==
    LET Valid(p) ==
            validatePath(platform, p, config.allowRelativePaths) = Null
    IN  /\ \A i \in 1..Len(probes) : ProbeOp(i) = "stat" => Valid(ProbePath(i))
        /\ \A i \in 1..Len(openPathCalls) : Valid(openPathCalls[i].path)
        /\ \A i \in 1..Len(editorCalls) : Valid(editorCalls[i])

====
